---------------------------- MODULE Spec2Model ----------------------------
(***************************************************************************)
(* A model of the endpoint-synthesis and change-aggregation pipeline of    *)
(* external-dns (fork with the Shaman provider):                           *)
(*   - provider/shaman.go : mergeChanges, convertTargets and               *)
(*     ShamanProvider.ApplyChanges (specifications SpecMerge, SpecApply);  *)
(*   - source/service.go and source/ingress.go : the Endpoints() methods   *)
(*     of the Service and Ingress adapters (SpecService, SpecIngress).     *)
(***************************************************************************)
EXTENDS Integers, Sequences, FiniteSets, TLC

VARIABLES
    \* ---- ShamanProvider.ApplyChanges ----
    dryRun,     \* ShamanProvider.dryRun
    passed,     \* the batch the caller handed to ApplyChanges
    changes,    \* the plan.Changes object ApplyChanges (and the hook) reads
    pc,         \* position of the call: idle, range, body, returned, panicked
    cls,        \* index in ClassOrder of the loop being executed
    queue,      \* what is left to iterate of the current loop's slice
    calls,      \* log of the calls made on shaman.client
    hookCalls,  \* log of the invocations of OnApplyChanges
    result,     \* the error value ApplyChanges returned
    \* ---- mergeChanges as a pure function ----
    mIn,        \* the list of one class given to mergeChanges
    mOut,       \* the slice it returned
    \* ---- the Service and Ingress adapters ----
    src,        \* the adapter NewServiceSource / NewIngressSource returned
    cluster,    \* what the cluster client's list calls answer during Endpoints()
    epOut       \* what Endpoints() returned

applyVars == <<dryRun, passed, changes, pc, cls, queue, calls, hookCalls, result>>
mergeVars == <<mIn, mOut>>
sourceVars == <<src, cluster, epOut>>
vars == <<applyVars, mergeVars, sourceVars>>

-----------------------------------------------------------------------------
(* Bounds and input domains                                                *)

\* most endpoints in one list handed to mergeChanges (SpecMerge)
MaxLen == 3
\* most endpoints in one batch, over its four classes (SpecApply)
MaxBatch == 3

Endpoint(n, ts, ty, ttl) ==
    [DNSName |-> n, Targets |-> ts, RecordType |-> ty, RecordTTL |-> ttl]

\* endpoints the pure-function specification draws from
MergeEndpoints ==
    { Endpoint(n, ts, tt[1], tt[2]) :
        n \in {"x", "y"},
        ts \in {<<"1.1.1.1">>, <<"2.2.2.2">>, <<"2.2.2.2", "1.1.1.1">>,
                <<"1.1.1.1", "1.1.1.1">>},
        tt \in {<<"A", 0>>, <<"CNAME", 300>>} }

\* endpoints the batches of SpecApply draw from
ApplyEndpoints ==
    { Endpoint("x", <<"1.1.1.1">>, "A", 0),
      Endpoint("x", <<"2.2.2.2">>, "A", 300),
      Endpoint("y", <<"1.1.1.1">>, "CNAME", 0),
      Endpoint("y", <<"2.2.2.2", "1.1.1.1">>, "A", 0) }

SeqsUpTo(S, n) == UNION { [1..k -> S] : k \in 0..n }

EmptyChanges ==
    [Create |-> <<>>, Delete |-> <<>>, UpdateNew |-> <<>>, UpdateOld |-> <<>>]

Cuts(n) == { d \in [1..3 -> 0..n] : d[1] <= d[2] /\ d[2] <= d[3] }

CutInFour(s, c) ==
    [Create |-> SubSeq(s, 1, c[1]),
     Delete |-> SubSeq(s, c[1] + 1, c[2]),
     UpdateNew |-> SubSeq(s, c[2] + 1, c[3]),
     UpdateOld |-> SubSeq(s, c[3] + 1, Len(s))]

Batches ==
    UNION { { CutInFour(s, c) : c \in Cuts(Len(s)) } :
                s \in SeqsUpTo(ApplyEndpoints, MaxBatch) }

\* the adapters before construction and before a call of Endpoints()
NoSource == [kind |-> "none"]
NoCluster == [listed |-> "nothing"]
NoResult == [state |-> "none", err |-> FALSE, eps |-> <<>>]

\* the error values a client call can return
Errors == {"err1", "err2"}

-----------------------------------------------------------------------------
(* provider/shaman.go : convertTargets, mergeChanges                       *)

\* a *common.Resource: nil, or a pointer to a resource
Nil == [isNil |-> TRUE, Domain |-> "", Records |-> <<>>]
Resource(d, rs) == [isNil |-> FALSE, Domain |-> d, Records |-> rs]

\* convertTargets with a TTL of 0 replaced by a default and the type fixed to A
convertTargetsClamped(e) ==
    [i \in 1..Len(e.Targets) |->
        [Address |-> e.Targets[i], RType |-> "A",
         Class |-> "IN", TTL |-> IF e.RecordTTL = 0 THEN 300 ELSE e.RecordTTL]]

convertTargets(e) ==
    [i \in 1..Len(e.Targets) |->
        [Address |-> e.Targets[i], RType |-> e.RecordType,
         Class |-> "IN", TTL |-> e.RecordTTL]]

EmptyMap == [k \in {} |-> Nil]

\* mergeChanges with "=" in place of append: a name keeps its last endpoint only
RECURSIVE mergeMapOverwrite(_)
mergeMapOverwrite(chs) ==
    IF chs = <<>> THEN EmptyMap
    ELSE LET m == mergeMapOverwrite(SubSeq(chs, 1, Len(chs) - 1))
             e == chs[Len(chs)]
             m1 == IF e.DNSName \in DOMAIN m
                   THEN m
                   ELSE m @@ (e.DNSName :> Resource(e.DNSName, <<>>))
         IN [m1 EXCEPT ![e.DNSName].Records = convertTargets(e)]

\* mergeChanges appending only the records the aggregate does not hold yet
RECURSIVE mergeMapDedup(_)
mergeMapDedup(chs) ==
    IF chs = <<>> THEN EmptyMap
    ELSE LET m == mergeMapDedup(SubSeq(chs, 1, Len(chs) - 1))
             e == chs[Len(chs)]
             m1 == IF e.DNSName \in DOMAIN m
                   THEN m
                   ELSE m @@ (e.DNSName :> Resource(e.DNSName, <<>>))
             old == m1[e.DNSName].Records
             new == SelectSeq(convertTargets(e),
                        LAMBDA r : \A i \in 1..Len(old) : old[i].Address # r.Address)
         IN [m1 EXCEPT ![e.DNSName].Records = @ \o new]

\* the map m of mergeChanges after its first loop
RECURSIVE mergeMap(_)
mergeMap(chs) ==
    IF chs = <<>> THEN EmptyMap
    ELSE LET m == mergeMap(SubSeq(chs, 1, Len(chs) - 1))
             e == chs[Len(chs)]
             m1 == IF e.DNSName \in DOMAIN m
                   THEN m
                   ELSE m @@ (e.DNSName :> Resource(e.DNSName, <<>>))
         IN [m1 EXCEPT ![e.DNSName].Records = @ \o convertTargets(e)]

\* the orders in which a range over a Go map may visit its keys
IterationOrders(S) ==
    { o \in [1..Cardinality(S) -> S] :
        \A i, j \in 1..Cardinality(S) : i # j => o[i] # o[j] }

\* values := make([]*common.Resource, len(m)); values = append(values, value)
\* the set of slices mergeChanges can return (one per iteration order)
mergeChanges(chs) ==
    LET m == mergeMap(chs)
        n == Cardinality(DOMAIN m)
    IN { [i \in 1..(2 * n) |-> IF i <= n THEN Nil ELSE m[o[i - n]]] :
            o \in IterationOrders(DOMAIN m) }


-----------------------------------------------------------------------------
(* provider/shaman.go : ShamanProvider.ApplyChanges                        *)

\* the loops with UpdateNew moved to the front
ClassOrderUpdateFirst == <<"UpdateNew", "Create", "Delete", "UpdateOld">>

\* the order of the four loops of ApplyChanges
ClassOrder == <<"Create", "Delete", "UpdateNew", "UpdateOld">>

\* shaman.create, shaman.update, shaman.delete: the client method each calls
ClientOp(c) ==
    CASE c = "Create" -> "AddRecord"
      [] c = "Delete" -> "DeleteRecord"
      [] OTHER -> "UpdateRecord"

\* what the client is handed: the aggregate, or for a delete its Domain only
ClientArg(c, ep) == IF c = "Delete" THEN Resource(ep.Domain, <<>>) ELSE ep

\* the client is an external library: a call succeeds or returns an error,
\* and a call handed a nil aggregate may also panic inside the library
ClientOutcomes(ep) ==
    IF ep.isNil THEN {"ok", "panic"} \cup Errors ELSE {"ok"} \cup Errors

\* the hook called without defer: it runs on entry, before any write
RunNotDeferred(hc, ch, n) == Append(hc, [changes |-> ch, after |-> 0])

\* defer shaman.OnApplyChanges(changes): the hook runs when the call leaves,
\* by return or by panic, and reads the batch through the pointer it was given
RunDeferred(hc, ch, n) == Append(hc, [changes |-> ch, after |-> n])

\* leaving ApplyChanges: how is "returned" or "panicked"
Leave(how, res, ch, cs) ==
    /\ pc' = how
    /\ result' = res
    /\ queue' = <<>>
    /\ hookCalls' = RunDeferred(hookCalls, ch, Len(cs))

\* the end of one loop: on to the next loop, or return nil after the last
NextLoop(cs) ==
    IF cls < Len(ClassOrder)
    THEN /\ cls' = cls + 1
         /\ pc' = "range"
         /\ queue' = <<>>
         /\ UNCHANGED <<hookCalls, result>>
    ELSE /\ Leave("returned", "nil", changes, cs)
         /\ UNCHANGED cls

\* the dry-run test left out
DryRunIgnored(d) == FALSE

\* if shaman.dryRun { return nil }
DryRunReturns(d) == d

\* a caller invokes ApplyChanges(b)
ApplyChanges(b) ==
    /\ pc = "idle"
    /\ passed' = b
    /\ changes' = b
    /\ calls' = <<>>
    /\ IF DryRunReturns(dryRun)
       THEN /\ pc' = "returned"
            /\ result' = "nil"
            /\ queue' = <<>>
            /\ cls' = 0
            /\ hookCalls' = RunDeferred(<<>>, b, 0)
       ELSE /\ pc' = "range"
            /\ cls' = 1
            /\ queue' = <<>>
            /\ result' = "none"
            /\ hookCalls' = <<>>
    /\ UNCHANGED <<dryRun, mergeVars, sourceVars>>

\* for _, ep := range mergeChanges(changes.<class>)
Range ==
    /\ pc = "range"
    /\ \E q \in mergeChanges(changes[ClassOrder[cls]]) :
          IF q = <<>>
          THEN NextLoop(calls)
          ELSE /\ queue' = q
               /\ pc' = "body"
               /\ UNCHANGED <<cls, hookCalls, result>>
    /\ UNCHANGED <<dryRun, passed, changes, calls, mergeVars, sourceVars>>

\* the loop body with the error of the call dropped: the loop goes on
AfterCallIgnoringError(out, cs) ==
    IF out = "panic"
    THEN Leave("panicked", "none", changes, cs) /\ UNCHANGED cls
    ELSE IF Len(queue) = 1
         THEN NextLoop(cs)
         ELSE /\ queue' = Tail(queue)
              /\ UNCHANGED <<pc, cls, hookCalls, result>>

\* err := shaman.create(ep) / delete(ep) / update(ep); if err != nil { return err }
AfterCall(out, cs) ==
    IF out = "ok"
    THEN IF Len(queue) = 1
         THEN NextLoop(cs)
         ELSE /\ queue' = Tail(queue)
              /\ UNCHANGED <<pc, cls, hookCalls, result>>
    ELSE IF out = "panic"
    THEN Leave("panicked", "none", changes, cs) /\ UNCHANGED cls
    ELSE Leave("returned", out, changes, cs) /\ UNCHANGED cls

\* one iteration of the current loop: a call on the client
Call ==
    /\ pc = "body"
    /\ LET c == ClassOrder[cls]
           ep == Head(queue)
       IN /\ ~(c = "Delete" /\ ep.isNil)
          /\ \E out \in ClientOutcomes(ep) :
                LET cs == Append(calls, [op |-> ClientOp(c), class |-> c,
                                         arg |-> ClientArg(c, ep), res |-> out])
                IN /\ calls' = cs
                   /\ AfterCall(out, cs)
    /\ UNCHANGED <<dryRun, passed, changes, mergeVars, sourceVars>>

\* shaman.delete(nil) reads endpoint.Domain through a nil pointer: the
\* goroutine panics before any call on the client
DeleteNilPanics ==
    /\ pc = "body"
    /\ ClassOrder[cls] = "Delete"
    /\ Head(queue).isNil
    /\ Leave("panicked", "none", changes, calls)
    /\ UNCHANGED <<dryRun, passed, changes, cls, calls, mergeVars, sourceVars>>

InitApply ==
    /\ dryRun \in BOOLEAN
    /\ passed = EmptyChanges
    /\ changes = EmptyChanges
    /\ pc = "idle"
    /\ cls = 0
    /\ queue = <<>>
    /\ calls = <<>>
    /\ hookCalls = <<>>
    /\ result = "none"
    /\ mIn = <<>>
    /\ mOut = <<>>
    /\ src = NoSource
    /\ cluster = NoCluster
    /\ epOut = NoResult

\* the caller (the controller's pass) hands one batch to ApplyChanges
Invoke ==
    /\ pc = "idle"
    /\ \E b \in Batches : ApplyChanges(b)

NextApply ==
    \/ Invoke
    \/ Range
    \/ Call
    \/ DeleteNilPanics

SpecApply == InitApply /\ [][NextApply]_vars

-----------------------------------------------------------------------------
(* mergeChanges checked as a pure function                                 *)

InitMerge ==
    /\ mIn \in SeqsUpTo(MergeEndpoints, MaxLen)
    /\ mOut = <<>>
    /\ dryRun = FALSE
    /\ passed = EmptyChanges
    /\ changes = EmptyChanges
    /\ pc = "idle"
    /\ cls = 0
    /\ queue = <<>>
    /\ calls = <<>>
    /\ hookCalls = <<>>
    /\ result = "none"
    /\ src = NoSource
    /\ cluster = NoCluster
    /\ epOut = NoResult

Merge ==
    /\ pc = "idle"
    /\ mOut' \in mergeChanges(mIn)
    /\ pc' = "merged"
    /\ UNCHANGED <<mIn, dryRun, passed, changes, cls, queue, calls, hookCalls, result,
                   sourceVars>>

NextMerge == Merge

SpecMerge == InitMerge /\ [][NextMerge]_vars

-----------------------------------------------------------------------------
(* Strings of the adapters.  A Go string is the sequence of its tokens: a  *)
(* token is one of the separators "," " " "." "/" "_" or a run of other    *)
(* characters ("a", "1.1.1.1" as an IP literal, "{{.Name}}" as a template  *)
(* action).  The empty string is <<>>.                                     *)

\* strings.Replace(s, " ", "", -1)
RemoveSpaces(s) == SelectSeq(s, LAMBDA t : t # " ")

\* strings.Split(s, ","): never empty, Split("") is [""]
RECURSIVE SplitComma(_)
SplitComma(s) ==
    IF \A i \in 1..Len(s) : s[i] # ","
    THEN <<s>>
    ELSE LET i == CHOOSE k \in 1..Len(s) :
                    s[k] = "," /\ \A j \in 1..(k - 1) : s[j] # ","
         IN <<SubSeq(s, 1, i - 1)>> \o SplitComma(SubSeq(s, i + 1, Len(s)))

\* strings.TrimSuffix(s, ".")
TrimSuffixDot(s) ==
    IF Len(s) > 0 /\ s[Len(s)] = "." THEN SubSeq(s, 1, Len(s) - 1) ELSE s

\* strings.ToLower on a protocol name
ToLower(s) ==
    [i \in 1..Len(s) |->
        CASE s[i] = "TCP" -> "tcp" [] s[i] = "UDP" -> "udp" [] OTHER -> s[i]]

\* the byte order of the tokens the model uses, for string comparison
TokenOrder ==
    <<" ", ",", ".", "/", "0", "1.1.1.1", "10.0.0.1", "10.0.0.2", "2.2.2.2",
      "30080", "30081", "50", "9.9.9.9", "_", "a", "b", "elb", "http", "ing1",
      "ing2", "ing3", "ingress", "ns", "p1", "s1", "s2", "s3", "s4", "s5",
      "s6", "s7", "s8", "service", "tcp", "tpl", "udp">>

TokenRank(t) == CHOOSE i \in 1..Len(TokenOrder) : TokenOrder[i] = t

\* a < b for Go strings
RECURSIVE StrLess(_, _)
StrLess(a, b) ==
    IF b = <<>> THEN FALSE
    ELSE IF a = <<>> THEN TRUE
    ELSE IF Head(a) = Head(b) THEN StrLess(Tail(a), Tail(b))
    ELSE TokenRank(Head(a)) < TokenRank(Head(b))

-----------------------------------------------------------------------------
(* text/template, as NewServiceSource and NewIngressSource use it          *)

NilTemplate == [nil |-> TRUE, parts |-> <<>>]

\* template.New("endpoint").Funcs(...).Parse(text): an action that is not
\* closed is a parse error
TemplateParse(text) ==
    IF \E i \in 1..Len(text) : text[i] = "{{.Name"
    THEN [err |-> TRUE, tmpl |-> NilTemplate]
    ELSE [err |-> FALSE, tmpl |-> [nil |-> FALSE, parts |-> text]]

RECURSIVE Render(_, _)
Render(parts, obj) ==
    IF parts = <<>> THEN <<>>
    ELSE (CASE Head(parts) = "{{.Name}}" -> obj.Name
            [] Head(parts) = "{{.Namespace}}" -> obj.Namespace
            [] OTHER -> <<Head(parts)>>) \o Render(Tail(parts), obj)

\* tmpl.Execute(&buf, obj): a field the object does not have is an error
TemplateExecute(tmpl, obj) ==
    IF \E i \in 1..Len(tmpl.parts) : tmpl.parts[i] = "{{.Missing}}"
    THEN [err |-> TRUE, text |-> <<>>]
    ELSE [err |-> FALSE, text |-> Render(tmpl.parts, obj)]

-----------------------------------------------------------------------------
(* metav1.ParseToLabelSelector / LabelSelectorAsSelector / Matches          *)

\* "" is the empty selector, "key=value" an equality selector, anything
\* else here does not parse
ParseSelector(f) ==
    IF f = <<>> THEN [err |-> FALSE, empty |-> TRUE, key |-> "", value |-> <<>>]
    ELSE IF Len(f) = 3 /\ f[2] = "="
    THEN [err |-> FALSE, empty |-> FALSE, key |-> f[1], value |-> <<f[3]>>]
    ELSE [err |-> TRUE, empty |-> FALSE, key |-> "", value |-> <<>>]

\* a variant of the match that every annotation set satisfies
SelectorMatchesAny(sel, annotations) == TRUE

SelectorMatches(sel, annotations) ==
    sel.key \in DOMAIN annotations /\ annotations[sel.key] = sel.value

-----------------------------------------------------------------------------
(* Helpers of package source and package endpoint that the adapters call   *)

hostnameAnnotationKey == "hostname"
targetAnnotationKey == "target"
ttlAnnotationKey == "ttl"
controllerAnnotationKey == "controller"
controllerAnnotationValue == <<"dns-controller">>
legacyAnnotationKey == "legacy-dnsname"
ResourceLabelKey == "resource"
ClusterIPNone == <<"None">>

\* endpoint.NewLabels()
NewLabels == [k \in {} |-> <<>>]

\* an *endpoint.Endpoint of the adapters
SourceEndpoint(name, type, ttl, targets) ==
    [DNSName |-> name, Targets |-> targets, RecordType |-> type,
     RecordTTL |-> ttl, Labels |-> NewLabels]

\* endpoint.NewEndpointWithTTL(dnsName, recordType, ttl, target)
NewEndpointWithTTL(name, type, ttl, target) ==
    SourceEndpoint(TrimSuffixDot(name), type, ttl, <<TrimSuffixDot(target)>>)

\* endpoint.NewEndpoint(dnsName, recordType, target): TTL left unset
NewEndpoint(name, type, target) == NewEndpointWithTTL(name, type, 0, target)

\* ttl.IsConfigured()
IsConfigured(ttl) == ttl > 0

\* the target strings that parse as an IP literal
IPLiterals == {"1.1.1.1", "2.2.2.2", "9.9.9.9", "10.0.0.1", "10.0.0.2"}

\* suitableType(target): A for an IP literal, CNAME for anything else
suitableType(t) ==
    IF Len(t) = 1 /\ t[1] \in IPLiterals THEN "A" ELSE "CNAME"

\* getTTLFromAnnotations: absent or unparsable is the unset TTL
getTTLFromAnnotations(annotations) ==
    IF ttlAnnotationKey \notin DOMAIN annotations THEN 0
    ELSE IF annotations[ttlAnnotationKey] = <<"300">> THEN 300
    ELSE 0

\* getHostnamesFromAnnotations: the comma-separated hostname annotation
getHostnamesFromAnnotations(annotations) ==
    IF hostnameAnnotationKey \notin DOMAIN annotations THEN <<>>
    ELSE SplitComma(RemoveSpaces(annotations[hostnameAnnotationKey]))

\* getTargetsFromTargetAnnotation: the comma-separated target annotation
getTargetsFromTargetAnnotation(annotations) ==
    IF targetAnnotationKey \notin DOMAIN annotations
            \/ annotations[targetAnnotationKey] = <<>>
    THEN <<>>
    ELSE LET l == SplitComma(RemoveSpaces(annotations[targetAnnotationKey]))
         IN [i \in 1..Len(l) |-> TrimSuffixDot(l[i])]

\* sort.Sort(ep.Targets): ascending string order
RECURSIVE SortTargets(_)
SortTargets(ts) ==
    IF ts = <<>> THEN <<>>
    ELSE LET m == CHOOSE i \in 1..Len(ts) :
                    \A j \in 1..Len(ts) : ~StrLess(ts[j], ts[i])
         IN <<ts[m]>> \o SortTargets(SubSeq(ts, 1, m - 1) \o SubSeq(ts, m + 1, Len(ts)))

\* the targets of a load-balancer status: IP and hostname of every entry
RECURSIVE LoadBalancerTargets(_)
LoadBalancerTargets(lbs) ==
    IF lbs = <<>> THEN <<>>
    ELSE (IF Head(lbs).IP # <<>> THEN <<Head(lbs).IP>> ELSE <<>>)
            \o (IF Head(lbs).Hostname # <<>> THEN <<Head(lbs).Hostname>> ELSE <<>>)
            \o LoadBalancerTargets(Tail(lbs))

\* legacyEndpointsFromService: one record per load-balancer address for the
\* hostname of the legacy annotation
legacyEndpointsFromService(svc, compatibility) ==
    IF legacyAnnotationKey \notin DOMAIN svc.Annotations THEN <<>>
    ELSE LET ts == LoadBalancerTargets(svc.LoadBalancer)
         IN [i \in 1..Len(ts) |->
                NewEndpoint(svc.Annotations[legacyAnnotationKey],
                            suitableType(ts[i]), ts[i])]

\* concatenation of a sequence of sequences
RECURSIVE Flatten(_)
Flatten(ss) == IF ss = <<>> THEN <<>> ELSE Head(ss) \o Flatten(Tail(ss))

-----------------------------------------------------------------------------
(* source/service.go                                                       *)

defaultTargetsCapacity == 10

Failed == [err |-> TRUE, eps |-> <<>>]
Succeeded(eps) == [err |-> FALSE, eps |-> eps]

\* NewServiceSource: the template is parsed when it is not the empty string
NewServiceSource(c) ==
    LET p == IF c.fqdnTemplate # <<>>
             THEN TemplateParse(c.fqdnTemplate)
             ELSE [err |-> FALSE, tmpl |-> NilTemplate]
    IN IF p.err
       THEN [kind |-> "error"]
       ELSE [kind |-> "service",
             annotationFilter |-> c.annotationFilter,
             compatibility |-> c.compatibility,
             fqdnTemplate |-> p.tmpl,
             combineFQDNAnnotation |-> c.combineFQDNAnnotation,
             publishInternal |-> c.publishInternal,
             publishHostIP |-> c.publishHostIP,
             serviceTypeFilter |-> c.serviceTypeFilter]

\* filterByAnnotations (of serviceSource and of ingressSource)
\* a variant that keeps every resource when the filter does not parse
filterByAnnotationsLenient(sc, items) ==
    LET sel == ParseSelector(sc.annotationFilter)
    IN IF sel.err \/ sel.empty THEN [err |-> FALSE, items |-> items]
       ELSE [err |-> FALSE,
             items |-> SelectSeq(items,
                          LAMBDA r : SelectorMatches(sel, r.Annotations))]

filterByAnnotations(sc, items) ==
    LET sel == ParseSelector(sc.annotationFilter)
    IN IF sel.err THEN [err |-> TRUE, items |-> <<>>]
       ELSE IF sel.empty THEN [err |-> FALSE, items |-> items]
       ELSE [err |-> FALSE,
             items |-> SelectSeq(items,
                          LAMBDA r : SelectorMatches(sel, r.Annotations))]

filterByServiceType(sc, items) ==
    SelectSeq(items, LAMBDA r : r.Type \in sc.serviceTypeFilter)

\* the addresses of one kind over all nodes, in listing order
AddressesOfType(nodes, type) ==
    LET all == Flatten([i \in 1..Len(nodes) |-> nodes[i].Addresses])
        sel == SelectSeq(all, LAMBDA a : a.Type = type)
    IN [i \in 1..Len(sel) |-> sel[i].Address]

\* a variant that returns the external and the internal addresses together
extractNodeTargetsOfBothTypes(listing) ==
    IF listing.status = "forbidden" THEN [err |-> FALSE, targets |-> <<>>]
    ELSE IF listing.status # "ok" THEN [err |-> TRUE, targets |-> <<>>]
    ELSE [err |-> FALSE,
          targets |-> AddressesOfType(listing.items, "ExternalIP")
                        \o AddressesOfType(listing.items, "InternalIP")]

\* extractNodeTargets: Forbidden is no targets and no error
extractNodeTargets(listing) ==
    IF listing.status = "forbidden" THEN [err |-> FALSE, targets |-> <<>>]
    ELSE IF listing.status # "ok" THEN [err |-> TRUE, targets |-> <<>>]
    ELSE LET externalIPs == AddressesOfType(listing.items, "ExternalIP")
             internalIPs == AddressesOfType(listing.items, "InternalIP")
         IN [err |-> FALSE,
             targets |-> IF Len(externalIPs) > 0 THEN externalIPs ELSE internalIPs]

\* a variant that makes a record for a pod in any phase
HeadlessRecordAnyPhase(sc, v, hostname, ttl) ==
    LET headlessDomain == IF v.Hostname # <<>>
                          THEN v.Hostname \o <<".">> \o hostname
                          ELSE hostname
        ip == IF sc.publishHostIP THEN v.HostIP ELSE v.PodIP
    IN IF IsConfigured(ttl)
       THEN <<NewEndpointWithTTL(headlessDomain, "A", ttl, ip)>>
       ELSE <<NewEndpoint(headlessDomain, "A", ip)>>

\* the record of one pod of a headless service, if the pod is running
HeadlessRecord(sc, v, hostname, ttl) ==
    LET headlessDomain == IF v.Hostname # <<>>
                          THEN v.Hostname \o <<".">> \o hostname
                          ELSE hostname
        ip == IF sc.publishHostIP THEN v.HostIP ELSE v.PodIP
    IN IF v.Phase = "Running"
       THEN IF IsConfigured(ttl)
            THEN <<NewEndpointWithTTL(headlessDomain, "A", ttl, ip)>>
            ELSE <<NewEndpoint(headlessDomain, "A", ip)>>
       ELSE <<>>

\* extractHeadlessEndpoints: a failed pod listing is logged and gives nothing
extractHeadlessEndpoints(sc, cl, svc, hostname, ttl) ==
    LET pods == cl.pods[svc.Name]
    IN IF pods.err THEN <<>>
       ELSE Flatten([i \in 1..Len(pods.items) |->
                        HeadlessRecord(sc, pods.items[i], hostname, ttl)])

\* a variant that makes an SRV record for a port without node port too
NodePortRecordAnyPort(port, hostname, ttl) ==
    LET target == <<"0", " ", "50", " ", ToString(port.NodePort), " ">>
                        \o hostname
        portName == IF port.Name = <<>>
                    THEN <<ToString(port.NodePort)>> ELSE port.Name
        protocol == IF ToLower(port.Protocol) = <<>>
                    THEN <<"tcp">> ELSE ToLower(port.Protocol)
        recordName == <<"_">> \o portName \o <<".", "_">> \o protocol
                            \o <<".">> \o hostname
    IN IF IsConfigured(ttl)
       THEN <<NewEndpointWithTTL(recordName, "SRV", ttl, target)>>
       ELSE <<NewEndpoint(recordName, "SRV", target)>>

\* the SRV record of one port, if the port has a node port
NodePortRecord(port, hostname, ttl) ==
    IF port.NodePort > 0
    THEN LET target == <<"0", " ", "50", " ", ToString(port.NodePort), " ">>
                            \o hostname
             portName == IF port.Name = <<>>
                         THEN <<ToString(port.NodePort)>> ELSE port.Name
             protocol == IF ToLower(port.Protocol) = <<>>
                         THEN <<"tcp">> ELSE ToLower(port.Protocol)
             recordName == <<"_">> \o portName \o <<".", "_">> \o protocol
                                \o <<".">> \o hostname
         IN IF IsConfigured(ttl)
            THEN <<NewEndpointWithTTL(recordName, "SRV", ttl, target)>>
            ELSE <<NewEndpoint(recordName, "SRV", target)>>
    ELSE <<>>

extractNodePortEndpoints(svc, nodeTargets, hostname, ttl) ==
    Flatten([i \in 1..Len(svc.Ports) |->
                NodePortRecord(svc.Ports[i], hostname, ttl)])

extractServiceIps(svc) ==
    IF svc.ClusterIP = ClusterIPNone THEN <<>> ELSE <<svc.ClusterIP>>

extractLoadBalancerTargets(svc) == LoadBalancerTargets(svc.LoadBalancer)

\* a variant that gives both accumulators every target
targetsOfAnyType(targets, type) == targets

\* the targets generateEndpoints gives one of its two accumulators
targetsOfType(targets, type) ==
    SelectSeq(targets, LAMBDA t : suitableType(t) = type)

\* an accumulator is appended only when it has targets
appendIfTargets(ep) == IF Len(ep.Targets) > 0 THEN <<ep>> ELSE <<>>

\* a variant that takes the cluster address whether or not internal
\* publishing is enabled
generateEndpointsPublishAlways(sc, cl, svc, name, nodeTargets) ==
    LET hostname == TrimSuffixDot(name)
        ttl == getTTLFromAnnotations(svc.Annotations)
        targets ==
            CASE svc.Type = "LoadBalancer" -> extractLoadBalancerTargets(svc)
              [] svc.Type = "ClusterIP" -> extractServiceIps(svc)
              [] svc.Type = "NodePort" -> nodeTargets
              [] OTHER -> <<>>
        endpoints ==
            CASE svc.Type = "ClusterIP" /\ svc.ClusterIP = ClusterIPNone ->
                    extractHeadlessEndpoints(sc, cl, svc, hostname, ttl)
              [] svc.Type = "NodePort" ->
                    extractNodePortEndpoints(svc, nodeTargets, hostname, ttl)
              [] OTHER -> <<>>
        epA == SourceEndpoint(hostname, "A", ttl, targetsOfType(targets, "A"))
        epCNAME == SourceEndpoint(hostname, "CNAME", ttl,
                                  targetsOfType(targets, "CNAME"))
    IN endpoints \o appendIfTargets(epA) \o appendIfTargets(epCNAME)

generateEndpoints(sc, cl, svc, name, nodeTargets) ==
    LET hostname == TrimSuffixDot(name)
        ttl == getTTLFromAnnotations(svc.Annotations)
        targets ==
            CASE svc.Type = "LoadBalancer" -> extractLoadBalancerTargets(svc)
              [] svc.Type = "ClusterIP" ->
                    IF sc.publishInternal THEN extractServiceIps(svc) ELSE <<>>
              [] svc.Type = "NodePort" -> nodeTargets
              [] OTHER -> <<>>
        endpoints ==
            CASE svc.Type = "ClusterIP" /\ svc.ClusterIP = ClusterIPNone ->
                    extractHeadlessEndpoints(sc, cl, svc, hostname, ttl)
              [] svc.Type = "NodePort" ->
                    extractNodePortEndpoints(svc, nodeTargets, hostname, ttl)
              [] OTHER -> <<>>
        epA == SourceEndpoint(hostname, "A", ttl, targetsOfType(targets, "A"))
        epCNAME == SourceEndpoint(hostname, "CNAME", ttl,
                                  targetsOfType(targets, "CNAME"))
    IN endpoints \o appendIfTargets(epA) \o appendIfTargets(epCNAME)

\* serviceSource.endpoints: the hostnames of the hostname annotation
endpoints(sc, cl, svc, nodeTargets) ==
    LET hostnameList == getHostnamesFromAnnotations(svc.Annotations)
    IN Flatten([i \in 1..Len(hostnameList) |->
                    generateEndpoints(sc, cl, svc, hostnameList[i], nodeTargets)])

\* serviceSource.endpointsFromTemplate
serviceEndpointsFromTemplate(sc, cl, svc, nodeTargets) ==
    LET x == TemplateExecute(sc.fqdnTemplate, svc)
        hostnameList == SplitComma(RemoveSpaces(x.text))
    IN IF x.err THEN Failed
       ELSE Succeeded(Flatten([i \in 1..Len(hostnameList) |->
                generateEndpoints(sc, cl, svc, hostnameList[i], nodeTargets)]))

\* a variant that leaves the labels of the records as they are
setNoResourceLabel(kind, r, eps) == eps

\* setResourceLabel (of serviceSource and of ingressSource)
setResourceLabel(kind, r, eps) ==
    [i \in 1..Len(eps) |->
        [eps[i] EXCEPT !.Labels =
            (ResourceLabelKey :> (<<kind, "/">> \o r.Namespace \o <<"/">> \o r.Name))
                @@ @]]

\* a variant that processes a service whatever its controller annotation
serviceLoopBodyAnyController(sc, cl, svc, nodeTargets) ==
    LET e1 == endpoints(sc, cl, svc, nodeTargets)
        e2 == IF Len(e1) = 0 /\ sc.compatibility # ""
              THEN legacyEndpointsFromService(svc, sc.compatibility)
              ELSE e1
        useTemplate == (sc.combineFQDNAnnotation \/ Len(e2) = 0)
                            /\ ~sc.fqdnTemplate.nil
        t == serviceEndpointsFromTemplate(sc, cl, svc, nodeTargets)
        e3 == IF useTemplate
              THEN IF sc.combineFQDNAnnotation THEN e2 \o t.eps ELSE t.eps
              ELSE e2
    IN IF useTemplate /\ t.err THEN Failed
       ELSE Succeeded(setResourceLabel("service", svc, e3))

\* the body of the loop of serviceSource.Endpoints for one service
serviceLoopBody(sc, cl, svc, nodeTargets) ==
    IF controllerAnnotationKey \in DOMAIN svc.Annotations
            /\ svc.Annotations[controllerAnnotationKey] # controllerAnnotationValue
    THEN Succeeded(<<>>)
    ELSE LET e1 == endpoints(sc, cl, svc, nodeTargets)
             e2 == IF Len(e1) = 0 /\ sc.compatibility # ""
                   THEN legacyEndpointsFromService(svc, sc.compatibility)
                   ELSE e1
             useTemplate == (sc.combineFQDNAnnotation \/ Len(e2) = 0)
                                /\ ~sc.fqdnTemplate.nil
             t == serviceEndpointsFromTemplate(sc, cl, svc, nodeTargets)
             e3 == IF useTemplate
                   THEN IF sc.combineFQDNAnnotation THEN e2 \o t.eps ELSE t.eps
                   ELSE e2
         IN IF useTemplate /\ t.err THEN Failed
            ELSE Succeeded(setResourceLabel("service", svc, e3))

\* the loop over the services: the first error ends Endpoints()
RECURSIVE serviceLoop(_, _, _, _)
serviceLoop(sc, cl, items, nodeTargets) ==
    IF items = <<>> THEN Succeeded(<<>>)
    ELSE LET h == serviceLoopBody(sc, cl, Head(items), nodeTargets)
             r == serviceLoop(sc, cl, Tail(items), nodeTargets)
         IN IF h.err \/ r.err THEN Failed ELSE Succeeded(h.eps \o r.eps)

\* a variant that leaves the targets in the order they were found
sortNoTargets(eps) == eps

\* for _, ep := range endpoints { sort.Sort(ep.Targets) }
sortTargetsOfAll(eps) ==
    [i \in 1..Len(eps) |-> [eps[i] EXCEPT !.Targets = SortTargets(@)]]

\* serviceSource.Endpoints
serviceSource_Endpoints(sc, cl) ==
    IF cl.services.err THEN Failed
    ELSE LET f == filterByAnnotations(sc, cl.services.items)
             items == IF sc.serviceTypeFilter # {}
                      THEN filterByServiceType(sc, f.items)
                      ELSE f.items
             nodeTargets == extractNodeTargets(cl.nodes)
             r == serviceLoop(sc, cl, items, nodeTargets.targets)
         IN IF f.err \/ nodeTargets.err \/ r.err THEN Failed
            ELSE Succeeded(sortTargetsOfAll(r.eps))

-----------------------------------------------------------------------------
(* The Service adapter: inputs and actions                                 *)

\* most services in one listing
MaxServices == 1

\* the listings of at most n resources of S: no resource is listed twice
ListingsUpTo(S, n) ==
    { l \in SeqsUpTo(S, n) : \A i, j \in 1..Len(l) : l[i] = l[j] => i = j }

Ann1(k, v) == k :> v
NoAnnotations == [k \in {} |-> <<>>]

Service(name, type, annotations, clusterIP, lb, ports) ==
    [Name |-> <<name>>, Namespace |-> <<"ns">>, Type |-> type,
     Annotations |-> annotations, ClusterIP |-> clusterIP,
     LoadBalancer |-> lb, Ports |-> ports]

LB(ip, hostname) == [IP |-> ip, Hostname |-> hostname]
Port(name, nodePort, protocol) ==
    [Name |-> name, NodePort |-> nodePort, Protocol |-> protocol]

ServiceSamples ==
    { \* load balancer with IP and hostname addresses, annotated
      Service("s1", "LoadBalancer",
              Ann1(hostnameAnnotationKey, <<"a">>) @@ Ann1("class", <<"nginx">>)
                  @@ Ann1(ttlAnnotationKey, <<"300">>),
              <<"10.0.0.1">>,
              <<LB(<<"2.2.2.2">>, <<>>), LB(<<"1.1.1.1">>, <<"elb">>)>>, <<>>),
      \* load balancer without hostname annotation (legacy annotation only)
      Service("s2", "LoadBalancer", Ann1(legacyAnnotationKey, <<"b">>),
              <<"10.0.0.1">>, <<LB(<<"1.1.1.1">>, <<>>)>>, <<>>),
      \* load balancer without status, with a target annotation
      Service("s3", "LoadBalancer",
              Ann1(hostnameAnnotationKey, <<"a", ",", " ", "b", ".">>)
                  @@ Ann1(targetAnnotationKey, <<"9.9.9.9">>),
              <<"10.0.0.1">>, <<>>, <<>>),
      \* load balancer that another controller manages
      Service("s4", "LoadBalancer",
              Ann1(hostnameAnnotationKey, <<"a">>)
                  @@ Ann1(controllerAnnotationKey, <<"other">>),
              <<"10.0.0.1">>, <<LB(<<"1.1.1.1">>, <<>>)>>, <<>>),
      \* cluster-internal service, managed by this controller
      Service("s5", "ClusterIP",
              Ann1(hostnameAnnotationKey, <<"a">>)
                  @@ Ann1(controllerAnnotationKey, controllerAnnotationValue)
                  @@ Ann1("class", <<"nginx">>),
              <<"10.0.0.1">>, <<>>, <<>>),
      \* headless services
      Service("s6", "ClusterIP", Ann1(hostnameAnnotationKey, <<"a">>),
              ClusterIPNone, <<>>, <<>>),
      Service("s7", "ClusterIP", Ann1(hostnameAnnotationKey, <<"b">>),
              ClusterIPNone, <<>>, <<>>),
      \* node-port service
      Service("s8", "NodePort", Ann1(hostnameAnnotationKey, <<"a">>),
              <<"10.0.0.1">>, <<>>,
              <<Port(<<"http">>, 30080, <<"TCP">>), Port(<<>>, 30081, <<>>),
                Port(<<"b">>, 0, <<"UDP">>)>>),
      \* load balancer with a status and a target annotation
      Service("s9", "LoadBalancer",
              Ann1(hostnameAnnotationKey, <<"a">>)
                  @@ Ann1(targetAnnotationKey, <<"9.9.9.9">>),
              <<"10.0.0.1">>, <<LB(<<"1.1.1.1">>, <<>>)>>, <<>>) }

Pod(hostname, phase, podIP, hostIP) ==
    [Hostname |-> hostname, Phase |-> phase, PodIP |-> podIP, HostIP |-> hostIP]

\* what listing the pods of a service's selector answers
PodListings ==
    [n \in { s.Name : s \in ServiceSamples } |->
        IF n = <<"s6">>
        THEN [err |-> FALSE,
              items |-> <<Pod(<<"p1">>, "Running", <<"10.0.0.2">>, <<"2.2.2.2">>),
                          Pod(<<"p1">>, "Pending", <<"10.0.0.1">>, <<"1.1.1.1">>),
                          Pod(<<>>, "Running", <<"10.0.0.1">>, <<"1.1.1.1">>)>>]
        ELSE IF n = <<"s7">>
        THEN [err |-> TRUE, items |-> <<>>]
        ELSE [err |-> FALSE, items |-> <<>>]]

Node(addresses) == [Addresses |-> addresses]
Address(type, address) == [Type |-> type, Address |-> address]

\* what listing the nodes answers
NodeListings ==
    { [status |-> "ok",
       items |-> <<Node(<<Address("InternalIP", <<"10.0.0.1">>),
                          Address("ExternalIP", <<"2.2.2.2">>)>>),
                   Node(<<Address("ExternalIP", <<"1.1.1.1">>),
                          Address("InternalIP", <<"10.0.0.2">>)>>)>>],
      [status |-> "ok",
       items |-> <<Node(<<Address("InternalIP", <<"10.0.0.2">>)>>),
                   Node(<<Address("InternalIP", <<"10.0.0.1">>),
                          Address("Hostname", <<"b">>)>>)>>],
      [status |-> "ok",
       items |-> <<Node(<<Address("InternalIP", <<"10.0.0.1">>)>>),
                   Node(<<Address("InternalIP", <<"10.0.0.2">>),
                          Address("ExternalIP", <<"9.9.9.9">>)>>)>>],
      [status |-> "forbidden", items |-> <<>>],
      [status |-> "error", items |-> <<>>] }

ServiceClusters ==
    { [listed |-> "services", services |-> [err |-> FALSE, items |-> l],
       nodes |-> n, pods |-> PodListings] :
            l \in ListingsUpTo(ServiceSamples, MaxServices), n \in NodeListings }
    \cup { [listed |-> "services", services |-> [err |-> TRUE, items |-> <<>>],
            nodes |-> n, pods |-> PodListings] :
            n \in {[status |-> "forbidden", items |-> <<>>]} }

AnnotationFilters ==
    { <<>>, <<"class", "=", "nginx">>, <<"class", "in", "(", "a", "b", ")">> }

FQDNTemplates ==
    { <<>>,
      <<"{{.Name}}", ".", "tpl">>,
      <<"{{.Name}}", ".", "tpl", ",">>,
      <<" ">>,
      <<"{{.Name">>,
      <<"{{.Missing}}">> }

ServiceConfigs ==
    [annotationFilter : AnnotationFilters,
     fqdnTemplate : FQDNTemplates,
     combineFQDNAnnotation : BOOLEAN,
     compatibility : {"", "mate"},
     publishInternal : BOOLEAN,
     publishHostIP : BOOLEAN,
     serviceTypeFilter : {{}, {"LoadBalancer", "NodePort"}}]

\* main builds the adapter from the configuration
NewService ==
    /\ src.kind = "none"
    /\ \E c \in ServiceConfigs : src' = NewServiceSource(c)
    /\ UNCHANGED <<cluster, epOut, applyVars, mergeVars>>

\* one pass calls Endpoints(); the cluster client answers the list calls
ServiceEndpoints ==
    /\ src.kind = "service"
    /\ epOut.state = "none"
    /\ \E cl \in ServiceClusters :
          /\ cluster' = cl
          /\ epOut' = [state |-> "returned"] @@ serviceSource_Endpoints(src, cl)
    /\ UNCHANGED <<src, applyVars, mergeVars>>

InitSource ==
    /\ src = NoSource
    /\ cluster = NoCluster
    /\ epOut = NoResult
    /\ dryRun = FALSE
    /\ passed = EmptyChanges
    /\ changes = EmptyChanges
    /\ pc = "idle"
    /\ cls = 0
    /\ queue = <<>>
    /\ calls = <<>>
    /\ hookCalls = <<>>
    /\ result = "none"
    /\ mIn = <<>>
    /\ mOut = <<>>

NextService == NewService \/ ServiceEndpoints

SpecService == InitSource /\ [][NextService]_vars

-----------------------------------------------------------------------------
(* source/ingress.go                                                       *)

\* endpointsForHostname: an A record for the IP targets and a CNAME record
\* for the others, each only if it has targets
endpointsForHostname(hostname, targets, ttl) ==
    LET aTargets == SelectSeq(targets, LAMBDA t : suitableType(t) = "A")
        cnameTargets == SelectSeq(targets, LAMBDA t : suitableType(t) # "A")
    IN (IF Len(aTargets) > 0
        THEN <<SourceEndpoint(TrimSuffixDot(hostname), "A", ttl, aTargets)>>
        ELSE <<>>)
       \o (IF Len(cnameTargets) > 0
           THEN <<SourceEndpoint(TrimSuffixDot(hostname), "CNAME", ttl, cnameTargets)>>
           ELSE <<>>)

\* a variant that goes on without a template when the template does not
\* parse
NewIngressSourceUnchecked(c) ==
    LET p == IF c.fqdnTemplate # <<>>
             THEN TemplateParse(c.fqdnTemplate)
             ELSE [err |-> FALSE, tmpl |-> NilTemplate]
    IN [kind |-> "ingress",
        annotationFilter |-> c.annotationFilter,
        fqdnTemplate |-> p.tmpl,
        combineFQDNAnnotation |-> c.combineFQDNAnnotation]

\* NewIngressSource: the template is parsed when it is not the empty string
NewIngressSource(c) ==
    LET p == IF c.fqdnTemplate # <<>>
             THEN TemplateParse(c.fqdnTemplate)
             ELSE [err |-> FALSE, tmpl |-> NilTemplate]
    IN IF p.err
       THEN [kind |-> "error"]
       ELSE [kind |-> "ingress",
             annotationFilter |-> c.annotationFilter,
             fqdnTemplate |-> p.tmpl,
             combineFQDNAnnotation |-> c.combineFQDNAnnotation]

targetsFromIngressStatus(ing) == LoadBalancerTargets(ing.LoadBalancer)

\* a variant that prefers the status and falls back to the annotation
ingressTargetsStatusFirst(ing) ==
    LET targets == targetsFromIngressStatus(ing)
    IN IF Len(targets) = 0
       THEN getTargetsFromTargetAnnotation(ing.Annotations)
       ELSE targets

\* the targets of an ingress: the target annotation, else the status
ingressTargets(ing) ==
    LET targets == getTargetsFromTargetAnnotation(ing.Annotations)
    IN IF Len(targets) = 0 THEN targetsFromIngressStatus(ing) ELSE targets

\* the records of a list of hosts, the empty host skipped
nonEmptyHostEndpoints(hosts, targets, ttl) ==
    Flatten([i \in 1..Len(hosts) |->
                IF hosts[i] = <<>> THEN <<>>
                ELSE endpointsForHostname(hosts[i], targets, ttl)])

\* a variant in which the hostname annotation replaces the native hosts
endpointsFromIngressAnnotationOnly(ing) ==
    LET ttl == getTTLFromAnnotations(ing.Annotations)
        targets == ingressTargets(ing)
        hostnameList == getHostnamesFromAnnotations(ing.Annotations)
    IN IF hostnameList # <<>>
       THEN Flatten([i \in 1..Len(hostnameList) |->
                        endpointsForHostname(hostnameList[i], targets, ttl)])
       ELSE nonEmptyHostEndpoints(ing.Rules, targets, ttl)
                \o nonEmptyHostEndpoints(Flatten(ing.TLS), targets, ttl)

\* endpointsFromIngress: rule hosts, then TLS hosts, then annotation hosts
endpointsFromIngress(ing) ==
    LET ttl == getTTLFromAnnotations(ing.Annotations)
        targets == ingressTargets(ing)
        hostnameList == getHostnamesFromAnnotations(ing.Annotations)
    IN nonEmptyHostEndpoints(ing.Rules, targets, ttl)
       \o nonEmptyHostEndpoints(Flatten(ing.TLS), targets, ttl)
       \o Flatten([i \in 1..Len(hostnameList) |->
                    endpointsForHostname(hostnameList[i], targets, ttl)])

\* ingressSource.endpointsFromTemplate
ingressEndpointsFromTemplate(sc, ing) ==
    LET x == TemplateExecute(sc.fqdnTemplate, ing)
        ttl == getTTLFromAnnotations(ing.Annotations)
        targets == ingressTargets(ing)
        hostnameList == SplitComma(RemoveSpaces(x.text))
    IN IF x.err THEN Failed
       ELSE Succeeded(Flatten([i \in 1..Len(hostnameList) |->
                endpointsForHostname(TrimSuffixDot(hostnameList[i]), targets, ttl)]))

\* a variant that renders the template for every ingress, whether or not
\* the ingress has records of its own
ingressLoopBodyAlwaysTemplate(sc, ing) ==
    IF controllerAnnotationKey \in DOMAIN ing.Annotations
            /\ ing.Annotations[controllerAnnotationKey] # controllerAnnotationValue
    THEN Succeeded(<<>>)
    ELSE LET e1 == endpointsFromIngress(ing)
             t == ingressEndpointsFromTemplate(sc, ing)
         IN IF sc.fqdnTemplate.nil
            THEN Succeeded(setResourceLabel("ingress", ing, e1))
            ELSE IF t.err THEN Failed
            ELSE Succeeded(setResourceLabel("ingress", ing, e1 \o t.eps))

\* the body of the loop of ingressSource.Endpoints for one ingress
ingressLoopBody(sc, ing) ==
    IF controllerAnnotationKey \in DOMAIN ing.Annotations
            /\ ing.Annotations[controllerAnnotationKey] # controllerAnnotationValue
    THEN Succeeded(<<>>)
    ELSE LET e1 == endpointsFromIngress(ing)
             useTemplate == (sc.combineFQDNAnnotation \/ Len(e1) = 0)
                                /\ ~sc.fqdnTemplate.nil
             t == ingressEndpointsFromTemplate(sc, ing)
             e2 == IF useTemplate
                   THEN IF sc.combineFQDNAnnotation THEN e1 \o t.eps ELSE t.eps
                   ELSE e1
         IN IF useTemplate /\ t.err THEN Failed
            ELSE Succeeded(setResourceLabel("ingress", ing, e2))

RECURSIVE ingressLoop(_, _)
ingressLoop(sc, items) ==
    IF items = <<>> THEN Succeeded(<<>>)
    ELSE LET h == ingressLoopBody(sc, Head(items))
             r == ingressLoop(sc, Tail(items))
         IN IF h.err \/ r.err THEN Failed ELSE Succeeded(h.eps \o r.eps)

\* ingressSource.Endpoints
ingressSource_Endpoints(sc, cl) ==
    IF cl.ingresses.err THEN Failed
    ELSE LET f == filterByAnnotations(sc, cl.ingresses.items)
             r == ingressLoop(sc, f.items)
         IN IF f.err \/ r.err THEN Failed
            ELSE Succeeded(sortTargetsOfAll(r.eps))

-----------------------------------------------------------------------------
(* The Ingress adapter: inputs and actions                                 *)

\* most ingresses in one listing
MaxIngresses == 2

Ingress(name, annotations, rules, tls, lb) ==
    [Name |-> <<name>>, Namespace |-> <<"ns">>, Annotations |-> annotations,
     Rules |-> rules, TLS |-> tls, LoadBalancer |-> lb]

IngressSamples ==
    { \* a host declared as rule host and as TLS host, IP and hostname status
      Ingress("ing1", Ann1("class", <<"nginx">>) @@ Ann1(ttlAnnotationKey, <<"300">>),
              << <<"a">> >>, << << <<"a">>, <<>> >> >>,
              <<LB(<<"2.2.2.2">>, <<>>), LB(<<"1.1.1.1">>, <<"elb">>)>>),
      \* hostname annotation and a rule host
      Ingress("ing2", Ann1(hostnameAnnotationKey, <<"a", ",", "a", ".">>),
              << <<"b">> >>, <<>>, <<LB(<<"1.1.1.1">>, <<>>)>>),
      \* no host at all (an empty rule host)
      Ingress("ing3", NoAnnotations, << <<>> >>, <<>>, <<LB(<<"1.1.1.1">>, <<>>)>>),
      \* target annotation over a status
      Ingress("ing4", Ann1(targetAnnotationKey, <<"9.9.9.9", ",", " ", "elb", ".">>),
              << <<"a">> >>, <<>>, <<LB(<<"1.1.1.1">>, <<>>)>>),
      \* managed by another controller
      Ingress("ing5", Ann1(controllerAnnotationKey, <<"other">>)
                        @@ Ann1("class", <<"nginx">>),
              << <<"a">> >>, <<>>, <<LB(<<"1.1.1.1">>, <<>>)>>),
      \* no target: empty status and empty target annotation
      Ingress("ing6", Ann1(targetAnnotationKey, <<>>)
                        @@ Ann1(controllerAnnotationKey, controllerAnnotationValue),
              << <<"b">> >>, <<>>, <<>>) }

IngressClusters ==
    { [listed |-> "ingresses", ingresses |-> [err |-> FALSE, items |-> l]] :
            l \in ListingsUpTo(IngressSamples, MaxIngresses) }
    \cup { [listed |-> "ingresses", ingresses |-> [err |-> TRUE, items |-> <<>>]] }

IngressConfigs ==
    [annotationFilter : AnnotationFilters,
     fqdnTemplate : FQDNTemplates,
     combineFQDNAnnotation : BOOLEAN]

\* main builds the adapter from the configuration
NewIngress ==
    /\ src.kind = "none"
    /\ \E c \in IngressConfigs : src' = NewIngressSource(c)
    /\ UNCHANGED <<cluster, epOut, applyVars, mergeVars>>

\* one pass calls Endpoints(); the cluster client answers the list call
IngressEndpoints ==
    /\ src.kind = "ingress"
    /\ epOut.state = "none"
    /\ \E cl \in IngressClusters :
          /\ cluster' = cl
          /\ epOut' = [state |-> "returned"] @@ ingressSource_Endpoints(src, cl)
    /\ UNCHANGED <<src, applyVars, mergeVars>>

NextIngress == NewIngress \/ IngressEndpoints

SpecIngress == InitSource /\ [][NextIngress]_vars

\* main builds one adapter per configured source; each runs as above
NextSources == NewService \/ ServiceEndpoints \/ NewIngress \/ IngressEndpoints

SpecSources == InitSource /\ [][NextSources]_vars

-----------------------------------------------------------------------------
(* Properties of ShamanProvider.ApplyChanges and mergeChanges              *)

Classes == {"Create", "Delete", "UpdateNew", "UpdateOld"}

\* the position the specification gives each class in the apply sequence
ClaimedRank(c) ==
    CASE c = "Create" -> 1
      [] c = "Delete" -> 2
      [] c = "UpdateNew" -> 3
      [] c = "UpdateOld" -> 4

DistinctNames(chs) == { chs[i].DNSName : i \in 1..Len(chs) }

\* the targets of the endpoints named n, in input order
RECURSIVE TargetsOfName(_, _)
TargetsOfName(chs, n) ==
    IF chs = <<>> THEN <<>>
    ELSE (IF Head(chs).DNSName = n THEN Head(chs).Targets ELSE <<>>)
            \o TargetsOfName(Tail(chs), n)

Addresses(res) == [i \in 1..Len(res.Records) |-> res.Records[i].Address]

Occurrences(seq, x) == Cardinality({ i \in 1..Len(seq) : seq[i] = x })

CallsBefore(j, c) == { i \in 1..(j - 1) : calls[i].class = c }

C2_StopAtFirstError ==
    \A i \in 1..Len(calls) :
        calls[i].res \in Errors =>
            /\ i = Len(calls)
            /\ pc = "returned"
            /\ result = calls[i].res

\* a call failed after an earlier one succeeded, with a later class pending
C2_Witness ==
    /\ Len(calls) >= 2
    /\ calls[Len(calls)].res \in Errors
    /\ ~calls[1].arg.isNil \/ ~calls[2].arg.isNil
    /\ calls[Len(calls)].class = "Create"
    /\ passed.UpdateNew # <<>>

\* C3: with the dry-run flag set ApplyChanges issues no call on the client
\* for any batch and returns nil.
C3_DryRunNoWrites ==
    dryRun =>
        /\ calls = <<>>
        /\ pc \in {"idle", "returned"}
        /\ (pc = "returned" => result = "nil")

\* a dry run of a batch with something to create and something to delete
C3_Witness ==
    /\ dryRun
    /\ pc = "returned"
    /\ passed.Create # <<>>
    /\ passed.Delete # <<>>

\* C4: when ApplyChanges has left (dry run, success, error or panic) the
\* hook OnApplyChanges has run exactly once, after the last call on the
\* client, with the batch the caller passed in; before that it has not run.
C4_HookOnce ==
    IF pc \in {"returned", "panicked"}
    THEN /\ Len(hookCalls) = 1
         /\ hookCalls[1].changes = passed
         /\ hookCalls[1].after = Len(calls)
    ELSE hookCalls = <<>>

\* the hook has run after a pass that failed at its third call
C4_Witness ==
    /\ pc = "returned"
    /\ result \in Errors
    /\ Len(calls) = 3
    /\ Len(hookCalls) = 1
    /\ hookCalls[1].after = 3

\* C5: mergeChanges returns exactly one aggregate per distinct name of its
\* input and nothing else: as many entries as names, none of them nil, each
\* name the Domain of exactly one entry.
C5_OneAggregatePerName ==
    pc = "merged" =>
        /\ Len(mOut) = Cardinality(DistinctNames(mIn))
        /\ \A i \in 1..Len(mOut) :
              ~mOut[i].isNil /\ mOut[i].Domain \in DistinctNames(mIn)
        /\ \A n \in DistinctNames(mIn) :
              Cardinality({ i \in 1..Len(mOut) : mOut[i].Domain = n }) = 1

\* C6: for each name of the input, the one aggregate mergeChanges builds for
\* it holds one record per target of every endpoint of that name, in input
\* order (endpoint order, then target order), duplicates kept.
C6_TargetsConcatenated ==
    pc = "merged" =>
        \A n \in DistinctNames(mIn) :
            /\ Cardinality({ i \in 1..Len(mOut) :
                    ~mOut[i].isNil /\ mOut[i].Domain = n }) = 1
            /\ \A i \in 1..Len(mOut) :
                  (~mOut[i].isNil /\ mOut[i].Domain = n) =>
                      Addresses(mOut[i]) = TargetsOfName(mIn, n)

\* two endpoints named x with targets [1.1.1.1] and [2.2.2.2] were merged,
\* and so were two endpoints of one name that repeat a target
C6_Witness ==
    /\ pc = "merged"
    /\ Len(mIn) = 3
    /\ mIn[1].DNSName = "x" /\ mIn[1].Targets = <<"1.1.1.1">>
    /\ mIn[2].DNSName = "x" /\ mIn[2].Targets = <<"2.2.2.2">>
    /\ mIn[3].DNSName = "y" /\ mIn[3].Targets = <<"1.1.1.1", "1.1.1.1">>
    /\ \E i \in 1..Len(mOut) :
          Addresses(mOut[i]) = <<"1.1.1.1", "2.2.2.2">>

\* C7 as stated: no aggregate handed to a client call holds the same target
\* twice.
C7_NoDuplicateTargets ==
    \A i \in 1..Len(calls) :
        \A a, b \in 1..Len(calls[i].arg.Records) :
            calls[i].arg.Records[a].Address = calls[i].arg.Records[b].Address
                => a = b

\* C7 amended: duplicates are kept. An aggregate handed to a create or
\* update call holds every target exactly as often as the endpoints of that
\* name in that class of the batch list it.
C7_DuplicatesKept ==
    \A i \in 1..Len(calls) :
        (~calls[i].arg.isNil /\ calls[i].class # "Delete") =>
            LET want == TargetsOfName(passed[calls[i].class], calls[i].arg.Domain)
                got == Addresses(calls[i].arg)
            IN /\ Len(got) = Len(want)
               /\ \A k \in 1..Len(want) :
                     Occurrences(got, want[k]) = Occurrences(want, want[k])

\* a create call was handed an aggregate that holds a target twice
C7_Witness ==
    \E i \in 1..Len(calls) :
        /\ calls[i].op = "AddRecord"
        /\ ~calls[i].arg.isNil
        /\ Len(calls[i].arg.Records) = 2
        /\ calls[i].arg.Records[1].Address = calls[i].arg.Records[2].Address

-----------------------------------------------------------------------------
(* Properties of the adapters' Endpoints()                                 *)

Returned == epOut.state = "returned" /\ ~epOut.err

\* the value setResourceLabel gives the resource label
LabelOf(kind, r) == <<kind, "/">> \o r.Namespace \o <<"/">> \o r.Name

TargetSet(ep) == { ep.Targets[j] : j \in 1..Len(ep.Targets) }

\* the returned records of a resource
RecordsOf(label) ==
    { i \in 1..Len(epOut.eps) :
        /\ ResourceLabelKey \in DOMAIN epOut.eps[i].Labels
        /\ epOut.eps[i].Labels[ResourceLabelKey] = label }

RecordsOfKind(label, n, type) ==
    { i \in RecordsOf(label) :
        epOut.eps[i].DNSName = n /\ epOut.eps[i].RecordType = type }

\* the addresses of a load-balancer status
StatusAddresses(r) ==
    { r.LoadBalancer[j].IP : j \in 1..Len(r.LoadBalancer) }
        \cup { r.LoadBalancer[j].Hostname : j \in 1..Len(r.LoadBalancer) }

IsIP(t) == Len(t) = 1 /\ t[1] \in IPLiterals

\* C8: for a load-balancer service with a hostname annotation, every name
\* the service has records for has, per listing of the service, exactly one
\* A record when the status has IP addresses, holding exactly those, and
\* exactly one CNAME record when the status has hostnames, holding exactly
\* those; a kind without targets has no record, and no record mixes kinds.
C8_OneRecordPerKind ==
    (Returned /\ cluster.listed = "services") =>
        \A s \in 1..Len(cluster.services.items) :
            LET svc == cluster.services.items[s]
                label == LabelOf("service", svc)
                k == Cardinality({ j \in 1..Len(cluster.services.items) :
                                        cluster.services.items[j] = svc })
                ips == { t \in StatusAddresses(svc) : t # <<>> /\ IsIP(t) }
                hosts == { t \in StatusAddresses(svc) : t # <<>> /\ ~IsIP(t) }
                names == { epOut.eps[i].DNSName : i \in RecordsOf(label) }
            IN (svc.Type = "LoadBalancer"
                    /\ hostnameAnnotationKey \in DOMAIN svc.Annotations) =>
                \A n \in names :
                    /\ Cardinality(RecordsOfKind(label, n, "A"))
                            = IF ips # {} THEN k ELSE 0
                    /\ Cardinality(RecordsOfKind(label, n, "CNAME"))
                            = IF hosts # {} THEN k ELSE 0
                    /\ \A i \in RecordsOfKind(label, n, "A") :
                            /\ TargetSet(epOut.eps[i]) = ips
                            /\ Len(epOut.eps[i].Targets) = Cardinality(ips)
                    /\ \A i \in RecordsOfKind(label, n, "CNAME") :
                            /\ TargetSet(epOut.eps[i]) = hosts
                            /\ Len(epOut.eps[i].Targets) = Cardinality(hosts)
                    /\ \A i \in RecordsOf(label) :
                            epOut.eps[i].RecordType \in {"A", "CNAME"}

\* the load-balancer service a with addresses 2.2.2.2, 1.1.1.1 and elb was
\* returned as an A record and a CNAME record
C8_Witness ==
    /\ Returned
    /\ cluster.listed = "services"
    /\ Len(cluster.services.items) = 1
    /\ cluster.services.items[1].Name = <<"s1">>
    /\ Len(epOut.eps) = 2
    /\ epOut.eps[1].DNSName = <<"a">> /\ epOut.eps[1].RecordType = "A"
    /\ epOut.eps[1].Targets = << <<"1.1.1.1">>, <<"2.2.2.2">> >>
    /\ epOut.eps[2].DNSName = <<"a">> /\ epOut.eps[2].RecordType = "CNAME"
    /\ epOut.eps[2].Targets = << <<"elb">> >>

\* the target annotation of a resource is absent or empty
NoTargetAnnotation(r) ==
    \/ targetAnnotationKey \notin DOMAIN r.Annotations
    \/ r.Annotations[targetAnnotationKey] = <<>>

\* C9: every returned record has at least one target, and a resource with
\* no discoverable targets has no record at all: a load-balancer service or
\* an ingress with an empty status and no target annotation, and a
\* node-port service when no node targets are available.
C9_NoTargetsNoRecord ==
    Returned =>
        /\ \A i \in 1..Len(epOut.eps) : Len(epOut.eps[i].Targets) > 0
        /\ cluster.listed = "services" =>
              \A s \in 1..Len(cluster.services.items) :
                  LET svc == cluster.services.items[s]
                  IN (\/ svc.Type = "LoadBalancer" /\ svc.LoadBalancer = <<>>
                                /\ NoTargetAnnotation(svc)
                      \/ svc.Type = "NodePort"
                                /\ cluster.nodes.status = "forbidden")
                        => RecordsOf(LabelOf("service", svc)) = {}
        /\ cluster.listed = "ingresses" =>
              \A s \in 1..Len(cluster.ingresses.items) :
                  LET ing == cluster.ingresses.items[s]
                  IN (ing.LoadBalancer = <<>> /\ NoTargetAnnotation(ing))
                        => RecordsOf(LabelOf("ingress", ing)) = {}

\* C10: every returned record has a non-empty DNS name.
C10_NonEmptyName ==
    Returned => \A i \in 1..Len(epOut.eps) : epOut.eps[i].DNSName # <<>>

\* the hostnames of the hostname annotation of a resource, as the records
\* name them
AnnotationHosts(r) ==
    LET l == getHostnamesFromAnnotations(r.Annotations)
    IN { TrimSuffixDot(l[j]) : j \in 1..Len(l) }

\* the non-empty rule hosts and TLS hosts of an ingress
NativeHosts(ing) ==
    LET tls == Flatten(ing.TLS)
    IN ({ ing.Rules[j] : j \in 1..Len(ing.Rules) }
            \cup { tls[j] : j \in 1..Len(tls) }) \ {<<>>}

\* the controller annotation is absent or names this controller
OursToProcess(r) ==
    controllerAnnotationKey \in DOMAIN r.Annotations
        => r.Annotations[controllerAnnotationKey] = controllerAnnotationValue

\* C11 as stated: with the combine flag unset, an ingress that has a
\* hostname annotation has records for the annotation's hostnames only.
C11_AnnotationHostsOnly ==
    (Returned /\ cluster.listed = "ingresses" /\ ~src.combineFQDNAnnotation) =>
        \A s \in 1..Len(cluster.ingresses.items) :
            LET ing == cluster.ingresses.items[s]
            IN AnnotationHosts(ing) # {} =>
                \A i \in RecordsOf(LabelOf("ingress", ing)) :
                    epOut.eps[i].DNSName \in AnnotationHosts(ing)

\* C11 amended: with the combine flag unset and no annotation filter, an
\* ingress of this controller that has targets has records for every
\* non-empty rule host and TLS host and for every hostname of the hostname
\* annotation, the records of the native hosts before those of the
\* annotation.
C11_NativeAndAnnotationHosts ==
    (Returned /\ cluster.listed = "ingresses" /\ ~src.combineFQDNAnnotation
            /\ src.annotationFilter = <<>>) =>
        \A s \in 1..Len(cluster.ingresses.items) :
            LET ing == cluster.ingresses.items[s]
                recs == RecordsOf(LabelOf("ingress", ing))
                named(h) == { i \in recs : epOut.eps[i].DNSName = h }
            IN (OursToProcess(ing)
                    /\ (ing.LoadBalancer # <<>> \/ ~NoTargetAnnotation(ing))) =>
                /\ \A h \in NativeHosts(ing) \cup AnnotationHosts(ing) :
                        named(h) # {}
                /\ \A h \in NativeHosts(ing) \ AnnotationHosts(ing) :
                      \A g \in AnnotationHosts(ing) \ NativeHosts(ing) :
                          \A i \in named(h), j \in named(g) : i < j

\* the ingress with hostname annotation a and rule host b was returned,
\* with the combine flag unset, as a record for b and records for a
C11_Witness ==
    /\ Returned
    /\ cluster.listed = "ingresses"
    /\ ~src.combineFQDNAnnotation
    /\ Len(cluster.ingresses.items) = 1
    /\ cluster.ingresses.items[1].Name = <<"ing2">>
    /\ Len(epOut.eps) = 3
    /\ epOut.eps[1].DNSName = <<"b">>
    /\ epOut.eps[2].DNSName = <<"a">>
    /\ epOut.eps[3].DNSName = <<"a">>

\* the resources the adapter listed, and the adapter's kind of resource
Listed ==
    IF cluster.listed = "services" THEN cluster.services.items
    ELSE IF cluster.listed = "ingresses" THEN cluster.ingresses.items
    ELSE <<>>

\* the annotation filter of the adapter is empty or class=nginx and the
\* resource satisfies it
Selected(r) ==
    \/ src.annotationFilter = <<>>
    \/ /\ src.annotationFilter = <<"class", "=", "nginx">>
       /\ "class" \in DOMAIN r.Annotations
       /\ r.Annotations["class"] = <<"nginx">>

\* the resource reaches synthesis: it is selected, of this controller and,
\* for a service, of a type the service type filter lets through
Processed(r) ==
    /\ Selected(r)
    /\ OursToProcess(r)
    /\ src.kind = "service" =>
          (src.serviceTypeFilter = {} \/ r.Type \in src.serviceTypeFilter)

\* the hostnames of annotations, rule hosts, TLS hosts and legacy
\* annotations of the listed resources all end in a or b; a name rendered
\* from a template never does
TemplateDerived(ep) ==
    ep.DNSName = <<>> \/ ep.DNSName[Len(ep.DNSName)] \notin {"a", "b"}

\* the resource has targets whatever its hostname is
HasStatusTargets(r) ==
    /\ r.LoadBalancer # <<>>
    /\ src.kind = "service" => r.Type = "LoadBalancer"

\* C12: a resource's records hold template-derived records only if a
\* template is configured and the combine flag is set or the resource has
\* no other record; they hold them whenever that is so and the resource has
\* targets; with the combine flag they come after the resource's other
\* records, without it they are the resource's whole result.
C12_TemplateWhenCombineOrEmpty ==
    Returned =>
        \A s \in 1..Len(Listed) :
            LET r == Listed[s]
                recs == RecordsOf(LabelOf(src.kind, r))
                tmpl == { i \in recs : TemplateDerived(epOut.eps[i]) }
                other == recs \ tmpl
            IN Processed(r) =>
                /\ tmpl # {} =>
                      /\ ~src.fqdnTemplate.nil
                      /\ src.combineFQDNAnnotation \/ other = {}
                /\ (~src.fqdnTemplate.nil /\ HasStatusTargets(r)
                        /\ (src.combineFQDNAnnotation \/ other = {}))
                      => tmpl # {}
                /\ \A i \in other, j \in tmpl : i < j

\* with the combine flag set and the template {{.Name}}.tpl, the ingress
\* with rule host b and hostname annotation a was returned with its own
\* records followed by a record for ing2.tpl
C12_Witness ==
    /\ Returned
    /\ src.kind = "ingress"
    /\ src.combineFQDNAnnotation
    /\ Len(Listed) = 1
    /\ Listed[1].Name = <<"ing2">>
    /\ Len(epOut.eps) = 4
    /\ epOut.eps[1].DNSName = <<"b">>
    /\ epOut.eps[4].DNSName = <<"ing2", ".", "tpl">>

\* C13: a listed resource whose controller annotation is present with
\* another value than this controller's has no record in the result, with
\* or without template and combine flag; a resource without the annotation
\* or with the matching value that reaches synthesis with a hostname
\* annotation and targets has records.
C13_ForeignControllerSkipped ==
    Returned =>
        \A s \in 1..Len(Listed) :
            LET r == Listed[s]
                recs == RecordsOf(LabelOf(src.kind, r))
            IN /\ ~OursToProcess(r) => recs = {}
               /\ (Processed(r) /\ AnnotationHosts(r) # {}
                        /\ \/ HasStatusTargets(r)
                           \/ /\ src.kind = "service"
                              /\ r.Type = "ClusterIP"
                              /\ r.ClusterIP # ClusterIPNone
                              /\ src.publishInternal)
                     => recs # {}

\* with the template {{.Name}}.tpl and the combine flag set, a load-balancer
\* service that names another controller was listed and nothing was returned
C13_Witness ==
    /\ Returned
    /\ src.kind = "service"
    /\ src.combineFQDNAnnotation
    /\ ~src.fqdnTemplate.nil
    /\ Len(Listed) = 1
    /\ Listed[1].Name = <<"s4">>
    /\ Listed[1].Annotations[controllerAnnotationKey] = <<"other">>
    /\ Listed[1].LoadBalancer # <<>>
    /\ epOut.eps = <<>>

\* the hostnames a resource gives its records other than by the template
OwnHosts(r) ==
    AnnotationHosts(r)
        \cup (IF src.kind = "ingress" THEN NativeHosts(r) ELSE {})
        \cup (IF src.kind = "service" /\ legacyAnnotationKey \in DOMAIN r.Annotations
              THEN {r.Annotations[legacyAnnotationKey]} ELSE {})

\* the positions in the listing of the resources with that label
PositionsOf(label) ==
    { s \in 1..Len(Listed) : LabelOf(src.kind, Listed[s]) = label }

\* C14: every returned record carries the resource label; its value is
\* <kind>/<namespace>/<name> of a listed resource that reached synthesis;
\* the record is one that resource gives: a template-derived record whose
\* name holds a resource name holds the name of that resource, any other
\* record ends in one of the resource's own hostnames; and the records
\* come in the order in which their resources were listed.
C14_ResourceLabelSet ==
    Returned =>
        /\ \A i \in 1..Len(epOut.eps) :
              /\ ResourceLabelKey \in DOMAIN epOut.eps[i].Labels
              /\ \E s \in PositionsOf(epOut.eps[i].Labels[ResourceLabelKey]) :
                    LET r == Listed[s]
                        n == epOut.eps[i].DNSName
                    IN /\ Processed(r)
                       /\ (\E k \in 1..Len(n) : n[k] = "tpl")
                            => \E k \in 1..Len(n) : <<n[k]>> = r.Name
                       /\ ~TemplateDerived(epOut.eps[i])
                            => \E h \in OwnHosts(r) : h[Len(h)] = n[Len(n)]
        /\ \A i, j \in 1..Len(epOut.eps) :
              i < j =>
                \A s \in PositionsOf(epOut.eps[i].Labels[ResourceLabelKey]) :
                    \A t \in PositionsOf(epOut.eps[j].Labels[ResourceLabelKey]) :
                        s <= t

\* a node-port service was returned with the template {{.Name}}.tpl and the
\* combine flag: SRV records of the annotation hostname and of the template
\* name, all labelled service/ns/s8
C14_Witness ==
    /\ Returned
    /\ src.kind = "service"
    /\ src.combineFQDNAnnotation
    /\ Len(Listed) = 1
    /\ Listed[1].Name = <<"s8">>
    /\ \E i, j \in 1..Len(epOut.eps) :
          /\ epOut.eps[i].RecordType = "SRV"
          /\ ~TemplateDerived(epOut.eps[i])
          /\ epOut.eps[j].RecordType = "SRV"
          /\ \E k \in 1..Len(epOut.eps[j].DNSName) : epOut.eps[j].DNSName[k] = "tpl"
          /\ epOut.eps[i].Labels[ResourceLabelKey] = <<"service", "/", "ns", "/", "s8">>
          /\ epOut.eps[j].Labels[ResourceLabelKey] = <<"service", "/", "ns", "/", "s8">>

\* listing the pods of the service was asked for: the service is headless,
\* reaches synthesis and has a hostname, of its annotation or of the template
PodsListed(r) ==
    /\ src.kind = "service"
    /\ r.Type = "ClusterIP" /\ r.ClusterIP = ClusterIPNone
    /\ Processed(r)
    /\ AnnotationHosts(r) # {} \/ ~src.fqdnTemplate.nil

\* a listing call of the pass failed, Forbidden on nodes aside
ServiceListingFailed ==
    cluster.listed = "services" /\ cluster.services.err

IngressListingFailed ==
    cluster.listed = "ingresses" /\ cluster.ingresses.err

NodeListingFailed ==
    cluster.listed = "services" /\ cluster.nodes.status = "error"

PodListingFailed ==
    \E s \in 1..Len(Listed) : PodsListed(Listed[s]) /\ cluster.pods[Listed[s].Name].err

\* C15: when a listing call of the pass failed (services, ingresses, nodes
\* other than Forbidden, or the pods of a headless service), Endpoints()
\* returned an error and no records.
C15_ListingFailureFails ==
    (epOut.state = "returned"
        /\ (ServiceListingFailed \/ IngressListingFailed
                \/ NodeListingFailed \/ PodListingFailed))
      => (epOut.err /\ epOut.eps = <<>>)

\* the annotation filter of the adapter does not parse
FilterMalformed == ParseSelector(src.annotationFilter).err

\* rendering the adapter's template fails
TemplateFails ==
    ~src.fqdnTemplate.nil
        /\ \E k \in 1..Len(src.fqdnTemplate.parts) :
              src.fqdnTemplate.parts[k] = "{{.Missing}}"

\* C16: when listing the nodes fails with Forbidden, Endpoints() of the
\* Service adapter does not fail for that (it fails only if listing the
\* services, the filter or the template fails), every listed node-port
\* service has no record at all, and a load-balancer service that reaches
\* synthesis with a hostname annotation and a status has its records.
C16_ForbiddenSkipsNodePort ==
    (epOut.state = "returned" /\ cluster.listed = "services"
            /\ cluster.nodes.status = "forbidden") =>
        /\ epOut.err => (cluster.services.err \/ FilterMalformed \/ TemplateFails)
        /\ \A s \in 1..Len(Listed) :
              LET r == Listed[s]
                  recs == RecordsOf(LabelOf("service", r))
              IN /\ r.Type = "NodePort" => recs = {}
                 /\ (~epOut.err /\ r.Type = "LoadBalancer" /\ Processed(r)
                        /\ AnnotationHosts(r) # {} /\ HasStatusTargets(r))
                      => recs # {}

\* an adapter was constructed
Constructed == src.kind \in {"service", "ingress"}

UnparsableTemplates == { t \in FQDNTemplates : \E k \in 1..Len(t) : t[k] = "{{.Name" }

\* C18: NewIngressSource and NewServiceSource return an error and no
\* adapter exactly for the template strings that do not parse; for the
\* empty string they return an adapter without template, for any other an
\* adapter with that template; so a constructed adapter never holds a
\* template that does not parse.
C18_MalformedTemplateRejected ==
    /\ src.kind = "none" =>
          /\ \A c \in IngressConfigs :
                LET a == NewIngressSource(c)
                IN IF c.fqdnTemplate \in UnparsableTemplates
                   THEN a.kind = "error"
                   ELSE /\ a.kind = "ingress"
                        /\ a.fqdnTemplate.nil <=> c.fqdnTemplate = <<>>
                        /\ a.fqdnTemplate.parts = c.fqdnTemplate
          /\ \A c \in ServiceConfigs :
                LET a == NewServiceSource(c)
                IN IF c.fqdnTemplate \in UnparsableTemplates
                   THEN a.kind = "error"
                   ELSE /\ a.kind = "service"
                        /\ a.fqdnTemplate.nil <=> c.fqdnTemplate = <<>>
                        /\ a.fqdnTemplate.parts = c.fqdnTemplate
    /\ Constructed => src.fqdnTemplate.parts \notin UnparsableTemplates
    /\ src.kind = "error" => epOut.state = "none"

\* a constructor has returned an error, and no pass has run
C18_Witness ==
    src.kind = "error" /\ epOut.state = "none" /\ cluster = NoCluster

\* C19: a listed resource that the annotation filter does not select has
\* no record; with the empty filter, or when the filter selects it, a
\* resource of this controller (for a service: of a type the type filter
\* lets through) with a hostname annotation and a load-balancer status has
\* records; and the records keep the order of the listing.
C19_FilterKeepsMatching ==
    Returned =>
        /\ \A s \in 1..Len(Listed) :
              LET r == Listed[s]
                  recs == RecordsOf(LabelOf(src.kind, r))
              IN /\ ~Selected(r) => recs = {}
                 /\ (Processed(r) /\ AnnotationHosts(r) # {}
                        /\ HasStatusTargets(r)) => recs # {}
        /\ \A i, j \in 1..Len(epOut.eps) :
              i < j =>
                \A s \in PositionsOf(epOut.eps[i].Labels[ResourceLabelKey]) :
                    \A t \in PositionsOf(epOut.eps[j].Labels[ResourceLabelKey]) :
                        s <= t

\* with the filter class=nginx, an ingress without the class annotation
\* and an ingress with class nginx were listed, and all the records
\* returned are those of the second
C19_Witness ==
    /\ Returned
    /\ src.kind = "ingress"
    /\ src.annotationFilter = <<"class", "=", "nginx">>
    /\ Len(Listed) = 2
    /\ Listed[1].Name = <<"ing2">>
    /\ Listed[2].Name = <<"ing1">>
    /\ epOut.eps # <<>>
    /\ \A i \in 1..Len(epOut.eps) :
          epOut.eps[i].Labels[ResourceLabelKey] = LabelOf("ingress", Listed[2])

ReverseSeq(q) == [i \in 1..Len(q) |-> q[Len(q) + 1 - i]]

\* the resource with the address entries of its status in reverse order
StatusReversed(r) == [r EXCEPT !.LoadBalancer = ReverseSeq(r.LoadBalancer)]

\* the listed snapshot with the address entries of every status in reverse
\* order: the load-balancer entries of the resources and, for the Service
\* adapter, the nodes and the addresses of every node
ReorderedCluster ==
    IF cluster.listed = "services"
    THEN [cluster EXCEPT
            !.services.items =
                [i \in 1..Len(cluster.services.items) |->
                    StatusReversed(cluster.services.items[i])],
            !.nodes.items =
                ReverseSeq([i \in 1..Len(cluster.nodes.items) |->
                    Node(ReverseSeq(cluster.nodes.items[i].Addresses))])]
    ELSE [cluster EXCEPT
            !.ingresses.items =
                [i \in 1..Len(cluster.ingresses.items) |->
                    StatusReversed(cluster.ingresses.items[i])]]

\* what Endpoints() of the adapter returns on the reordered snapshot
EndpointsOfReordered ==
    IF src.kind = "service"
    THEN serviceSource_Endpoints(src, ReorderedCluster)
    ELSE ingressSource_Endpoints(src, ReorderedCluster)

C21_OneRecordPerNameAndType ==
    Returned =>
        \A i, j \in 1..Len(epOut.eps) :
            (epOut.eps[i].DNSName = epOut.eps[j].DNSName
                /\ epOut.eps[i].RecordType = epOut.eps[j].RecordType) => i = j

\* the targets the target annotation of a resource names
AnnotationTargets(r) ==
    LET l == getTargetsFromTargetAnnotation(r.Annotations)
    IN { l[j] : j \in 1..Len(l) }

\* the targets of all returned records of a resource under one name
TargetsUnder(label, n) ==
    UNION { TargetSet(epOut.eps[i]) :
                i \in { k \in RecordsOf(label) : epOut.eps[k].DNSName = n } }

\* C22: the records the Ingress adapter returns for an ingress hold, under
\* every name, exactly the targets of the target annotation when the
\* annotation names any, and exactly the addresses of the load-balancer
\* status otherwise.
C22_IngressTargetAnnotationFirst ==
    (Returned /\ src.kind = "ingress") =>
        \A s \in 1..Len(Listed) :
            LET ing == Listed[s]
                label == LabelOf("ingress", ing)
            IN \A i \in RecordsOf(label) :
                  TargetsUnder(label, epOut.eps[i].DNSName) =
                      IF AnnotationTargets(ing) # {}
                      THEN AnnotationTargets(ing)
                      ELSE StatusAddresses(ing) \ {<<>>}

\* with the template {{.Name}}.tpl and the combine flag, the ingress with
\* rule host a, status 1.1.1.1 and target annotation "9.9.9.9, elb." was
\* returned as A and CNAME records for a and for ing4.tpl, none of them
\* with the target 1.1.1.1
C22_Witness ==
    /\ Returned
    /\ src.kind = "ingress"
    /\ src.combineFQDNAnnotation
    /\ Len(Listed) = 1
    /\ Listed[1].Name = <<"ing4">>
    /\ Listed[1].LoadBalancer[1].IP = <<"1.1.1.1">>
    /\ Len(epOut.eps) = 4
    /\ epOut.eps[1].DNSName = <<"a">>
    /\ epOut.eps[1].Targets = << <<"9.9.9.9">> >>
    /\ epOut.eps[2].Targets = << <<"elb">> >>
    /\ epOut.eps[3].DNSName = <<"ing4", ".", "tpl">>
    /\ epOut.eps[3].Targets = << <<"9.9.9.9">> >>
    /\ epOut.eps[4].Targets = << <<"elb">> >>

\* C23: the records the Service adapter returns for a service whose target
\* annotation names targets hold, under every name, exactly the targets of
\* the annotation.
C23_ServiceTargetAnnotationFirst ==
    (Returned /\ src.kind = "service") =>
        \A s \in 1..Len(Listed) :
            LET svc == Listed[s]
                label == LabelOf("service", svc)
            IN AnnotationTargets(svc) # {} =>
                \A i \in RecordsOf(label) :
                    TargetsUnder(label, epOut.eps[i].DNSName) = AnnotationTargets(svc)

\* the name and the target the SRV record of a port has under hostname h
SRVName(p, h) ==
    <<"_">> \o (IF p.Name = <<>> THEN <<ToString(p.NodePort)>> ELSE p.Name)
        \o <<".", "_">>
        \o (IF p.Protocol = <<>> THEN <<"tcp">> ELSE ToLower(p.Protocol))
        \o <<".">> \o h

SRVTarget(p, h) == <<"0", " ", "50", " ", ToString(p.NodePort), " ">> \o h

\* the addresses of the listed nodes that are targets: the external ones
\* when there are any, the internal ones otherwise
NodeAddresses(type) ==
    UNION { { cluster.nodes.items[k].Addresses[j].Address :
                j \in { x \in 1..Len(cluster.nodes.items[k].Addresses) :
                            cluster.nodes.items[k].Addresses[x].Type = type } } :
            k \in 1..Len(cluster.nodes.items) }

PreferredNodeAddresses ==
    IF NodeAddresses("ExternalIP") # {}
    THEN NodeAddresses("ExternalIP") ELSE NodeAddresses("InternalIP")

\* the SRV records a node-port service has under hostname h
SRVRecordsUnder(r, h) ==
    { i \in RecordsOf(LabelOf("service", r)) :
        /\ epOut.eps[i].RecordType = "SRV"
        /\ Len(epOut.eps[i].DNSName) > Len(h)
        /\ SubSeq(epOut.eps[i].DNSName,
                  Len(epOut.eps[i].DNSName) - Len(h) + 1,
                  Len(epOut.eps[i].DNSName)) = h }

CountNodeAddresses(type) ==
    Cardinality({ <<k, j>> \in (1..Len(cluster.nodes.items)) \X (1..2) :
        /\ j <= Len(cluster.nodes.items[k].Addresses)
        /\ cluster.nodes.items[k].Addresses[j].Type = type })

\* C25: on the listed nodes extractNodeTargets returns, without error, the
\* external addresses of all nodes when a node reports one and the internal
\* addresses of all nodes otherwise, one target per reported address and
\* never addresses of both types; and these are the targets of the A
\* record of a node-port service.
C25_ExternalNodeAddressesPreferred ==
    (epOut.state = "returned" /\ cluster.listed = "services"
            /\ cluster.nodes.status = "ok") =>
        LET t == extractNodeTargets(cluster.nodes)
            got == { t.targets[j] : j \in 1..Len(t.targets) }
        IN /\ ~t.err
           /\ IF NodeAddresses("ExternalIP") # {}
              THEN /\ got = NodeAddresses("ExternalIP")
                   /\ Len(t.targets) = CountNodeAddresses("ExternalIP")
              ELSE /\ got = NodeAddresses("InternalIP")
                   /\ Len(t.targets) = CountNodeAddresses("InternalIP")
           /\ Returned =>
                \A s \in 1..Len(Listed) :
                    (Listed[s].Type = "NodePort" /\ Processed(Listed[s])) =>
                        \A h \in AnnotationHosts(Listed[s]) :
                            \A i \in RecordsOfKind(LabelOf("service", Listed[s]), h, "A") :
                                TargetSet(epOut.eps[i]) = got

\* one node reporting only an internal address and one reporting 10.0.0.2
\* and the external 9.9.9.9 were listed, and the node-port service was
\* returned with the A record a -> 9.9.9.9
C25_Witness ==
    /\ Returned
    /\ src.kind = "service"
    /\ cluster.nodes.status = "ok"
    /\ NodeAddresses("ExternalIP") = { <<"9.9.9.9">> }
    /\ NodeAddresses("InternalIP") = { <<"10.0.0.1">>, <<"10.0.0.2">> }
    /\ Len(Listed) = 1
    /\ Listed[1].Type = "NodePort"
    /\ \E i \in 1..Len(epOut.eps) :
          /\ epOut.eps[i].RecordType = "A"
          /\ epOut.eps[i].DNSName = <<"a">>
          /\ epOut.eps[i].Targets = << <<"9.9.9.9">> >>

\* C26: a listed cluster-internal service with a cluster address has no
\* record when internal publishing is disabled; when it is enabled and the
\* service reaches synthesis, every hostname of its annotation has exactly
\* one record, an A record whose single target is the cluster address, and
\* every record of the service has that single target.
C26_ClusterIPOnlyWhenPublishInternal ==
    (Returned /\ src.kind = "service") =>
        \A s \in 1..Len(Listed) :
            LET r == Listed[s]
                label == LabelOf("service", r)
            IN (r.Type = "ClusterIP" /\ r.ClusterIP # ClusterIPNone) =>
                IF ~src.publishInternal THEN RecordsOf(label) = {}
                ELSE /\ \A i \in RecordsOf(label) :
                            /\ epOut.eps[i].Targets = <<r.ClusterIP>>
                            /\ epOut.eps[i].RecordType = "A"
                     /\ Processed(r) =>
                            \A h \in AnnotationHosts(r) :
                                Cardinality(RecordsOfKind(label, h, "A")) = 1

\* with internal publishing disabled, the template {{.Name}}.tpl and the
\* combine flag, the cluster-internal service with address 10.0.0.1 and
\* hostname annotation a was listed and nothing was returned
C26_Witness ==
    /\ Returned
    /\ src.kind = "service"
    /\ ~src.publishInternal
    /\ src.combineFQDNAnnotation
    /\ ~src.fqdnTemplate.nil
    /\ src.annotationFilter = <<>>
    /\ Len(Listed) = 1
    /\ Listed[1].Type = "ClusterIP"
    /\ Listed[1].ClusterIP = <<"10.0.0.1">>
    /\ AnnotationHosts(Listed[1]) = { <<"a">> }
    /\ epOut.eps = <<>>

\* the name a pod of a headless service has under hostname h, and the
\* address the adapter publishes for it
PodName(v, h) == IF v.Hostname = <<>> THEN h ELSE v.Hostname \o <<".">> \o h

PodAddress(v) == IF src.publishHostIP THEN v.HostIP ELSE v.PodIP

\* C27: for a headless service that reaches synthesis and whose pods were
\* listed, under every hostname h of its annotation every running pod has
\* exactly one record, an A record named <pod hostname>.<h>, or h for a pod
\* without hostname, whose single target is the pod's IP, or its host IP
\* when host IPs are published; the service has no other record under h,
\* so a pod in another phase has none.
C27_RunningPodsOnly ==
    (Returned /\ src.kind = "service") =>
        \A s \in 1..Len(Listed) :
            LET r == Listed[s]
                label == LabelOf("service", r)
                pods == cluster.pods[r.Name]
                running == { k \in 1..Len(pods.items) :
                                pods.items[k].Phase = "Running" }
                own == { i \in RecordsOf(label) : ~TemplateDerived(epOut.eps[i]) }
            IN (r.Type = "ClusterIP" /\ r.ClusterIP = ClusterIPNone
                    /\ Processed(r) /\ ~pods.err) =>
                /\ \A h \in AnnotationHosts(r) :
                      \A k \in running :
                          Cardinality({ i \in own :
                            /\ epOut.eps[i].DNSName = PodName(pods.items[k], h)
                            /\ epOut.eps[i].RecordType = "A"
                            /\ epOut.eps[i].Targets = <<PodAddress(pods.items[k])>> })
                          = Cardinality({ j \in running :
                                /\ PodName(pods.items[j], h) = PodName(pods.items[k], h)
                                /\ PodAddress(pods.items[j]) = PodAddress(pods.items[k]) })
                /\ Cardinality(own)
                        = Cardinality(AnnotationHosts(r)) * Cardinality(running)

\* with host IPs published, the headless service with hostname a and the
\* pods p1 (running), p1 (pending) and one without hostname (running) was
\* returned as the records p1.a -> 2.2.2.2 and a -> 1.1.1.1
C27_Witness ==
    /\ Returned
    /\ src.kind = "service"
    /\ src.publishHostIP
    /\ Len(Listed) = 1
    /\ Listed[1].ClusterIP = ClusterIPNone
    /\ Len(cluster.pods[Listed[1].Name].items) = 3
    /\ cluster.pods[Listed[1].Name].items[2].Phase = "Pending"
    /\ Len(epOut.eps) = 2
    /\ epOut.eps[1].DNSName = <<"p1", ".", "a">>
    /\ epOut.eps[1].Targets = << <<"2.2.2.2">> >>
    /\ epOut.eps[2].DNSName = <<"a">>
    /\ epOut.eps[2].Targets = << <<"1.1.1.1">> >>

\* ApplyChanges has returned nil without dry-run
AppliedAll == pc = "returned" /\ result = "nil" /\ ~dryRun

\* the calls that wrote the name n: a call handed an aggregate of n, or the
\* delete of n
WritesOf(n) ==
    { i \in 1..Len(calls) : ~calls[i].arg.isNil /\ calls[i].arg.Domain = n }

\* C28: after ApplyChanges has returned nil without dry-run, for every name
\* of the UpdateNew class the last call that wrote the name was
\* handed the targets of the UpdateNew endpoints of that name.
C28_LastWriteIsUpdateNew ==
    AppliedAll =>
        \A n \in DistinctNames(passed.UpdateNew) :
            /\ WritesOf(n) # {}
            /\ \A i \in WritesOf(n) :
                  (\A j \in WritesOf(n) : j <= i) =>
                      Addresses(calls[i].arg) = TargetsOfName(passed.UpdateNew, n)

\* ApplyChanges has ended, by return or by panic, without dry-run, and no
\* call it made on the client failed
EndedWithoutClientFailure ==
    /\ ~dryRun
    /\ pc \in {"returned", "panicked"}
    /\ \A i \in 1..Len(calls) : calls[i].res = "ok"

RECURSIVE OriginsOfName(_, _)
OriginsOfName(chs, n) ==
    IF chs = <<>> THEN <<>>
    ELSE (IF Head(chs).DNSName = n
          THEN [i \in 1..Len(Head(chs).Targets) |-> Head(chs)]
          ELSE <<>>)
            \o OriginsOfName(Tail(chs), n)

\* C30: every record of every aggregate mergeChanges builds has the address
\* of one target of an endpoint of that name, and the record type and the
\* TTL of that very endpoint, unchanged, with class "IN"; this holds too
\* when the endpoints merged under one name differ in type or TTL.
C30_TypeAndTTLPassedThrough ==
    pc = "merged" =>
        \A i \in 1..Len(mOut) :
            ~mOut[i].isNil =>
                LET o == OriginsOfName(mIn, mOut[i].Domain)
                    rs == mOut[i].Records
                IN /\ Len(rs) = Len(o)
                   /\ \A k \in 1..Len(rs) :
                         /\ \E t \in 1..Len(o[k].Targets) :
                               o[k].Targets[t] = rs[k].Address
                         /\ rs[k].RType = o[k].RecordType
                         /\ rs[k].TTL = o[k].RecordTTL
                         /\ rs[k].Class = "IN"

\* an A endpoint with TTL 0 and a CNAME endpoint with TTL 300, both named
\* x, were merged into one aggregate that holds a record of each
C30_Witness ==
    /\ pc = "merged"
    /\ \E a, b \in 1..Len(mIn) :
          /\ a < b
          /\ mIn[a].DNSName = "x" /\ mIn[b].DNSName = "x"
          /\ mIn[a].RecordType = "A" /\ mIn[a].RecordTTL = 0
          /\ mIn[b].RecordType = "CNAME" /\ mIn[b].RecordTTL = 300
    /\ \E i \in 1..Len(mOut) :
          /\ ~mOut[i].isNil
          /\ mOut[i].Domain = "x"
          /\ \E k, l \in 1..Len(mOut[i].Records) :
                /\ k < l
                /\ mOut[i].Records[k].RType = "A"
                /\ mOut[i].Records[k].TTL = 0
                /\ mOut[i].Records[l].RType = "CNAME"
                /\ mOut[i].Records[l].TTL = 300

=============================================================================
